---- MODULE Spec2Model ----
(***************************************************************************)
(* Model of the route computation of the Optimized Gas Pipeline            *)
(* Installation System: calculateEdgeCost, terrainFilter and dijkstra of   *)
(* App.js.  One query is one behaviour: the arguments of the call are the  *)
(* initial state, and the actions are the three phases of dijkstra         *)
(* (adjacency construction, one iteration of the while loop, path          *)
(* reconstruction and return).                                             *)
(***************************************************************************)
EXTENDS Integers, Sequences, FiniteSets

VARIABLES nodes, edges, source, destination,
          terrainFilterEnabled, maxTerrain, maxCost,
          pc, graph, costs, previous, unvisited, route

vars == <<nodes, edges, source, destination,
          terrainFilterEnabled, maxTerrain, maxCost,
          pc, graph, costs, previous, unvisited, route>>

args == <<nodes, edges, source, destination,
          terrainFilterEnabled, maxTerrain, maxCost>>

(***************************************************************************)
(* Bounds of the generated graphs.                                         *)
(***************************************************************************)
NumNodes == 3
MaxEdges == 3
MaxWideEdges == 2

(***************************************************************************)
(* JavaScript values.  Finite costs are the naturals; Infinity, undefined   *)
(* and the values a plain object inherits from Object.prototype are kept   *)
(* apart from them (Inherited, below).  Node ids are strings; the values   *)
(* null and undefined, where the code holds them in place of an id, are    *)
(* two reserved strings, and Key is the property key they are coerced to.  *)
(***************************************************************************)
Infinity == -1
undefined == -2
null == "<null>"
undefinedId == "<undefined>"

\* obj[x]: the property key of x
Key(x) == IF x = null THEN "null" ELSE IF x = undefinedId THEN "undefined" ELSE x

\* the properties every plain object ({}) inherits from Object.prototype
ProtoKeys ==
  << "__proto__", "constructor", "hasOwnProperty", "isPrototypeOf",
     "propertyIsEnumerable", "toLocaleString", "toString", "valueOf",
     "__defineGetter__", "__defineSetter__", "__lookupGetter__", "__lookupSetter__" >>

\* the value (Object.prototype for __proto__, a function for the others) read
\* under an inherited key: no number, a different one for each key
Inherited(k) == undefined - (CHOOSE i \in 1..Len(ProtoKeys) : ProtoKeys[i] = k)

\* useState(3) of maxTerrain and the bounds of its slider
MaxTerrainDefault == 3
MaxTerrainMin == 1
MaxTerrainMax == 3

\* useState(10000) of maxCost and the bounds and step of its slider
MaxCostDefault == 10000
MaxCostMin == 0
MaxCostMax == 2000
MaxCostStep == 10

IsFinite(c) == c >= 0

\* JS a < b for costs: false when either side is no number (NaN)
Lt(a, b) == IsFinite(a) /\ (b = Infinity \/ (IsFinite(b) /\ a < b))

\* fault: the cost accumulated so far is dropped from the sum
PlusDropsLeft(a, b) == b

\* JS a + b for a finite and b finite
Plus(a, b) == a + b

Range(s) == {s[i] : i \in 1..Len(s)}

\* a plain object {} as the function of its own properties
EmptyMap == [k \in {} |-> 0]

\* obj[k] = v for a number v: the assignment of a primitive to __proto__ is
\* ignored
Put(m, k, v) ==
  IF k = "__proto__" THEN m
  ELSE [x \in (DOMAIN m) \cup {k} |-> IF x = k THEN v ELSE m[x]]

\* obj[k] = v for an object v: under __proto__ it replaces the prototype of
\* obj, which the function keeps under that key
PutRef(m, k, v) == [x \in (DOMAIN m) \cup {k} |-> IF x = k THEN v ELSE m[x]]

\* costs[k]: an own property, else what Object.prototype gives, else undefined
Get(m, k) ==
  IF k # "__proto__" /\ k \in DOMAIN m THEN m[k]
  ELSE IF k \in Range(ProtoKeys) THEN Inherited(k)
  ELSE undefined

\* what previous[k].from and previous[k].edge read when previous[k] is a
\* value without these properties
NoLink == [from |-> undefinedId, edge |-> undefined]

\* previous[k] is truthy: an own entry, a property of a replaced prototype
\* (its from is a string, falsy when empty), or a property of Object.prototype
Has(m, k) ==
  \/ k \in DOMAIN m
  \/ "__proto__" \in DOMAIN m /\ (k = "edge" \/ (k = "from" /\ m["__proto__"].from # ""))
  \/ k \in Range(ProtoKeys)

\* the from and the edge of a truthy previous[k]
Link(m, k) == IF k \in DOMAIN m THEN m[k] ELSE NoLink

\* graph[k].push is callable: k is an own key (an array).  Every inherited
\* value has no push, and of undefined no property can be read: a TypeError
CanPush(adj, k) == k \in DOMAIN adj

(***************************************************************************)
(* The built-in graph.                                                     *)
(***************************************************************************)
NodeIds == <<"A", "B", "C", "D", "E", "F">>

Edge(s, e, d, t, m, l) ==
  [start |-> s, end |-> e, distance |-> d, terrain |-> t,
   materialCost |-> m, laborCost |-> l]

BuiltinEdges ==
  << Edge("A", "B", 5, 1, 70, 40),
     Edge("A", "C", 7, 2, 65, 35),
     Edge("B", "D", 6, 1, 80, 45),
     Edge("C", "D", 3, 3, 90, 50),
     Edge("C", "E", 4, 2, 55, 25),
     Edge("D", "F", 8, 1, 60, 30),
     Edge("E", "F", 5, 2, 75, 40) >>

(***************************************************************************)
(* Cost model and filter.                                                  *)
(***************************************************************************)
\* fault: the parentheses around the two rates are lost
calculateEdgeCostUnparenthesized(edge) ==
  edge.distance * edge.materialCost + edge.laborCost

calculateEdgeCost(edge) ==
  edge.distance * (edge.materialCost + edge.laborCost)

\* fault: the negation of the checkbox is lost
terrainFilterUnnegated(edge, enabled, ceiling) ==
  enabled \/ edge.terrain <= ceiling

terrainFilter(edge, enabled, ceiling) ==
  ~enabled \/ edge.terrain <= ceiling

\* fault: the comparison with maxCost is turned around
AdmissibleAboveLimit(edge, enabled, ceiling, limit) ==
  terrainFilter(edge, enabled, ceiling) /\ calculateEdgeCost(edge) >= limit

\* fault: the maxCost clause is missing
AdmissibleTerrainOnly(edge, enabled, ceiling, limit) ==
  terrainFilter(edge, enabled, ceiling)

Admissible(edge, enabled, ceiling, limit) ==
  terrainFilter(edge, enabled, ceiling) /\ calculateEdgeCost(edge) <= limit

(***************************************************************************)
(* Adjacency construction.  graph[id].push on an id that is no key of      *)
(* graph is a TypeError.                                                   *)
(***************************************************************************)
EmptyGraph(ns) == [id \in Range(ns) |-> <<>>]

Neighbor(n, edge) == [node |-> n, cost |-> calculateEdgeCost(edge), edge |-> edge]

Push(adj, at, n, edge) == [adj EXCEPT ![at] = Append(@, Neighbor(n, edge))]

AddEdge(g, edge, enabled, ceiling, limit) ==
  IF g.threw \/ ~Admissible(edge, enabled, ceiling, limit) THEN g
  ELSE IF ~CanPush(g.adj, Key(edge.start)) THEN [g EXCEPT !.threw = TRUE]
  ELSE LET g1 == Push(g.adj, Key(edge.start), edge.end, edge)
       IN  IF ~CanPush(g1, Key(edge.end)) THEN [threw |-> TRUE, adj |-> g1]
           ELSE [threw |-> FALSE, adj |-> Push(g1, Key(edge.end), edge.start, edge)]

RECURSIVE AddEdges(_, _, _, _, _, _)
AddEdges(g, es, i, enabled, ceiling, limit) ==
  IF i > Len(es) THEN g
  ELSE AddEdges(AddEdge(g, es[i], enabled, ceiling, limit),
                es, i + 1, enabled, ceiling, limit)

BuildGraph(ns, es, enabled, ceiling, limit) ==
  AddEdges([threw |-> FALSE, adj |-> EmptyGraph(ns)], es, 1, enabled, ceiling, limit)

(***************************************************************************)
(* Search.                                                                 *)
(***************************************************************************)
\* fault: costs[source] = 0 is missing
InitCostsAllInfinite(ns, src) == [id \in Range(ns) |-> Infinity]

InitCosts(ns, src) ==
  Put([id \in Range(ns) \ {"__proto__"} |-> Infinity], Key(src), 0)

\* new Set(ids): the ids in the order of their first occurrence
RECURSIVE Unique(_, _, _)
Unique(ns, i, acc) ==
  IF i > Len(ns) THEN acc
  ELSE Unique(ns, i + 1, IF ns[i] \in Range(acc) THEN acc ELSE Append(acc, ns[i]))

Unvisited(ns) == Unique(ns, 1, <<>>)

\* unvisited.forEach: the first node, in insertion order, of least cost
RECURSIVE ScanMin(_, _, _, _, _)
ScanMin(unv, i, cs, min, current) ==
  IF i > Len(unv) THEN current
  ELSE IF Lt(Get(cs, unv[i]), min) THEN ScanMin(unv, i + 1, cs, Get(cs, unv[i]), unv[i])
  ELSE ScanMin(unv, i + 1, cs, min, current)

SelectCurrent(unv, cs) == ScanMin(unv, 1, cs, Infinity, null)

Delete(unv, n) == SelectSeq(unv, LAMBDA x : x # n)

\* fault: the tentative cost is overwritten without comparing
RelaxOneAlways(st, current, neighbor) ==
  IF neighbor.node \notin Range(st.unvisited) THEN st
  ELSE [st EXCEPT !.costs = Put(st.costs, neighbor.node,
                                Plus(Get(st.costs, current), neighbor.cost)),
                  !.previous = PutRef(st.previous, neighbor.node,
                                      [from |-> current, edge |-> neighbor.edge])]

RelaxOne(st, current, neighbor) ==
  IF neighbor.node \notin Range(st.unvisited) THEN st
  ELSE LET newCost == Plus(Get(st.costs, current), neighbor.cost)
       IN  IF Lt(newCost, Get(st.costs, neighbor.node))
           THEN [st EXCEPT !.costs = Put(st.costs, neighbor.node, newCost),
                           !.previous = PutRef(st.previous, neighbor.node,
                                               [from |-> current, edge |-> neighbor.edge])]
           ELSE st

RECURSIVE Relax(_, _, _, _)
Relax(st, current, nbrs, i) ==
  IF i > Len(nbrs) THEN st
  ELSE Relax(RelaxOne(st, current, nbrs[i]), current, nbrs, i + 1)

\* while-loop body; done is the loop leaving (condition false or break)
Iterate(adj, dst, st) ==
  IF Len(st.unvisited) = 0 THEN [st EXCEPT !.done = TRUE]
  ELSE LET current == SelectCurrent(st.unvisited, st.costs)
       IN  IF current = null \/ current = dst THEN [st EXCEPT !.done = TRUE]
           ELSE Relax([st EXCEPT !.unvisited = Delete(st.unvisited, current)],
                      current, adj[current], 1)

\* fault: push instead of unshift
UnshiftAtEnd(path, e) == Append(path, e)

Unshift(path, e) == <<e>> \o path

RECURSIVE WalkBack(_, _, _)
WalkBack(prev, current, path) ==
  IF ~Has(prev, Key(current)) THEN path
  ELSE WalkBack(prev, Link(prev, Key(current)).from,
                Unshift(path, Link(prev, Key(current)).edge))

Result(cs, prev, dst) ==
  [path |-> WalkBack(prev, dst, <<>>), cost |-> Get(cs, Key(dst))]

RECURSIVE Search(_, _, _)
Search(adj, dst, st) ==
  IF st.done THEN st ELSE Search(adj, dst, Iterate(adj, dst, st))

\* the whole call: threw is the TypeError of the adjacency construction
dijkstra(ns, es, src, dst, enabled, ceiling, limit) ==
  LET g == BuildGraph(ns, es, enabled, ceiling, limit)
  IN  IF g.threw THEN [threw |-> TRUE, path |-> <<>>, cost |-> undefined]
      ELSE LET st == Search(g.adj, dst,
                            [costs |-> InitCosts(ns, src), previous |-> EmptyMap,
                             unvisited |-> Unvisited(ns), done |-> FALSE])
               r == Result(st.costs, st.previous, dst)
           IN  [threw |-> FALSE, path |-> r.path, cost |-> r.cost]

(***************************************************************************)
(* The query as a state machine.                                           *)
(***************************************************************************)
BuildStep ==
  /\ pc = "build"
  /\ LET g == BuildGraph(nodes, edges, terrainFilterEnabled, maxTerrain, maxCost)
     IN  IF g.threw
         THEN /\ pc' = "threw"
              /\ UNCHANGED <<graph, costs, previous, unvisited>>
         ELSE /\ pc' = "search"
              /\ graph' = g.adj
              /\ costs' = InitCosts(nodes, source)
              /\ previous' = EmptyMap
              /\ unvisited' = Unvisited(nodes)
  /\ UNCHANGED <<args, route>>

SearchStep ==
  /\ pc = "search"
  /\ LET st == Iterate(graph, destination,
                       [costs |-> costs, previous |-> previous,
                        unvisited |-> unvisited, done |-> FALSE])
     IN  /\ costs' = st.costs
         /\ previous' = st.previous
         /\ unvisited' = st.unvisited
         /\ pc' = IF st.done THEN "reconstruct" ELSE "search"
  /\ UNCHANGED <<args, graph, route>>

ReturnStep ==
  /\ pc = "reconstruct"
  /\ route' = Result(costs, previous, destination)
  /\ pc' = "done"
  /\ UNCHANGED <<args, graph, costs, previous, unvisited>>

Next == BuildStep \/ SearchStep \/ ReturnStep

(***************************************************************************)
(* Inputs.  Generated graphs have the first NumNodes built-in node ids;    *)
(* an edge is a distance, a terrain level and two cost rates on a pair of  *)
(* ids.                                                                    *)
(***************************************************************************)
GenNodes == SubSeq(NodeIds, 1, NumNodes)
Ids == Range(GenNodes)
AbsentId == "Z"
\* selections that are no node: unset, an unknown id, ids that name a
\* property of Object.prototype
Unselected == {null, AbsentId, "constructor", "__proto__"}

Position(id) == CHOOSE i \in 1..Len(NodeIds) : NodeIds[i] = id

Distances == {1, 3}
Terrains == {1, 2}
Rates == {<<0, 0>>, <<1, 0>>, <<0, 1>>}

EdgesOn(Pairs, Ds, Rs) ==
  {Edge(p[1], p[2], d, t, r[1], r[2]) : p \in Pairs, d \in Ds, t \in Terrains, r \in Rs}

EdgeLists(S, n) == UNION {[1..k -> S] : k \in 0..n}

\* pairs of distinct nodes, each in one orientation
ForwardPairs == {p \in Ids \X Ids : Position(p[1]) < Position(p[2])}
\* every ordered pair, self-loops included
AllPairs == Ids \X Ids
\* pairs of which at least one end is no node
DanglingPairs ==
  {p \in (Ids \cup {AbsentId}) \X (Ids \cup {AbsentId}) : p[1] = AbsentId \/ p[2] = AbsentId}

MaxCosts == {0, 1, 3}

Start ==
  /\ pc = "build"
  /\ graph = EmptyMap
  /\ costs = EmptyMap
  /\ previous = EmptyMap
  /\ unvisited = <<>>
  /\ route = [path |-> <<>>, cost |-> 0]

FilterChoice ==
  /\ terrainFilterEnabled \in BOOLEAN
  /\ maxTerrain \in (IF terrainFilterEnabled THEN Terrains ELSE {MaxTerrainDefault})
  /\ maxCost \in MaxCosts

\* a free edge (cost 0), a labor-only edge (cost 1), a material-only edge (cost 3)
Profiles(Pairs) ==
  EdgesOn(Pairs, {1}, {<<0, 0>>, <<0, 1>>}) \cup EdgesOn(Pairs, {3}, {<<1, 0>>})

\* well-formed graphs of up to MaxEdges edges, both endpoints selected
Init ==
  /\ nodes = GenNodes
  /\ edges \in EdgeLists(Profiles(ForwardPairs), MaxEdges)
  /\ source \in Ids
  /\ destination \in Ids
  /\ FilterChoice
  /\ Start

Spec == Init /\ [][Next]_vars

\* edges in either orientation, self-loops included
InitLoops ==
  /\ nodes = GenNodes
  /\ edges \in EdgeLists(Profiles(AllPairs), MaxWideEdges)
  /\ source \in Ids
  /\ destination \in Ids
  /\ FilterChoice
  /\ Start

SpecLoops == InitLoops /\ [][Next]_vars

\* a selection that is unset (null) or names no node
InitUnset ==
  /\ nodes = GenNodes
  /\ edges \in EdgeLists(Profiles(ForwardPairs), MaxWideEdges)
  /\ source \in Ids \cup Unselected
  /\ destination \in Ids \cup Unselected
  /\ source \notin Ids \/ destination \notin Ids
  /\ FilterChoice
  /\ Start

SpecUnset == InitUnset /\ [][Next]_vars

\* edge lists in which an edge may name an id that is no node
InitMalformed ==
  /\ nodes = GenNodes
  /\ edges \in EdgeLists(Profiles(ForwardPairs \cup DanglingPairs), MaxWideEdges)
  /\ source \in Ids
  /\ destination \in Ids
  /\ FilterChoice
  /\ Start

SpecMalformed == InitMalformed /\ [][Next]_vars

\* the built-in graph under the controls of the page
SliderCosts == {MaxCostStep * k : k \in (MaxCostMin \div MaxCostStep)..(MaxCostMax \div MaxCostStep)}

InitBuiltin ==
  /\ nodes = NodeIds
  /\ edges = BuiltinEdges
  /\ source \in Range(NodeIds)
  /\ destination \in Range(NodeIds)
  /\ terrainFilterEnabled \in BOOLEAN
  /\ maxTerrain \in MaxTerrainMin..MaxTerrainMax
  /\ maxCost \in SliderCosts \cup {MaxCostDefault}
  /\ Start

SpecBuiltin == InitBuiltin /\ [][Next]_vars

(***************************************************************************)
(* Reference notions, stated on the arguments of the call alone.           *)
(***************************************************************************)
Done == pc = "done"

RateCost(e) == e.distance * (e.materialCost + e.laborCost)

\* both clauses of the filter of this query
Allowed(e) ==
  /\ terrainFilterEnabled => e.terrain <= maxTerrain
  /\ RateCost(e) <= maxCost

Joins(e, u, v) == (e.start = u /\ e.end = v) \/ (e.start = v /\ e.end = u)

LinkCosts(u, v) == {RateCost(e) : e \in {x \in Range(edges) : Allowed(x) /\ Joins(x, u, v)}}

MinOf(S) == CHOOSE x \in S : \A y \in S : x <= y

\* walks over allowed edges, as node sequences of at most Len(nodes) nodes;
\* with costs >= 0 a longer walk is never cheaper than the walk left when
\* its cycles are cut out
Walks(u, v) ==
  {w \in UNION {[1..k -> Range(nodes)] : k \in 1..Len(nodes)} :
     /\ w[1] = u
     /\ w[Len(w)] = v
     /\ \A i \in 1..(Len(w) - 1) : LinkCosts(w[i], w[i + 1]) # {}}

RECURSIVE WalkCost(_, _)
WalkCost(w, i) ==
  IF i >= Len(w) THEN 0 ELSE MinOf(LinkCosts(w[i], w[i + 1])) + WalkCost(w, i + 1)

Selected == source \in Range(nodes) /\ destination \in Range(nodes)

Reachable == Selected /\ Walks(source, destination) # {}

RECURSIVE PathSum(_, _)
PathSum(path, i) ==
  IF i > Len(path) THEN 0 ELSE RateCost(path[i]) + PathSum(path, i + 1)

\* the nodes met when the edges of path are followed from node at; ok is
\* false when an edge does not leave the node reached so far
RECURSIVE Follow(_, _, _, _)
Follow(path, i, at, seen) ==
  IF i > Len(path) THEN [ok |-> TRUE, seen |-> seen]
  ELSE IF path[i].start = at /\ path[i].end # at
       THEN Follow(path, i + 1, path[i].end, Append(seen, path[i].end))
  ELSE IF path[i].end = at /\ path[i].start # at
       THEN Follow(path, i + 1, path[i].start, Append(seen, path[i].start))
  ELSE [ok |-> FALSE, seen |-> seen]

Distinct(seq) == \A i, j \in 1..Len(seq) : i # j => seq[i] # seq[j]

IsSimplePath(path, from, to) ==
  LET f == Follow(path, 1, from, <<from>>)
  IN  f.ok /\ f.seen[Len(f.seen)] = to /\ Distinct(f.seen)

\* the filters of the generated queries
Filters ==
  ({FALSE} \X {MaxTerrainDefault} \X MaxCosts) \cup ({TRUE} \X Terrains \X MaxCosts)

\* the other filters that are no tighter than the filter of this query
LooserFilters ==
  {f \in Filters :
     /\ f # <<terrainFilterEnabled, maxTerrain, maxCost>>
     /\ maxCost <= f[3]
     /\ ~f[1] \/ (terrainFilterEnabled /\ maxTerrain <= f[2])}

Under(f) == dijkstra(nodes, edges, source, destination, f[1], f[2], f[3])

\* an edge that names an id that is no node
Dangling(e) == e.start \notin Range(nodes) \/ e.end \notin Range(nodes)

(***************************************************************************)
(* C1: when the destination can be reached from the source over allowed    *)
(* edges, the returned cost is the least cost of a walk from source to     *)
(* destination over allowed edges.                                         *)
(***************************************************************************)
C1_CostIsMinimum ==
  (Done /\ Reachable) =>
     route.cost = MinOf({WalkCost(w, 1) : w \in Walks(source, destination)})

\* a two-edge route that beats an allowed direct edge
C1_Witness ==
  /\ Done /\ Reachable
  /\ Len(route.path) = 2
  /\ LinkCosts(source, destination) # {}
  /\ route.cost < MinOf(LinkCosts(source, destination))

(***************************************************************************)
(* C2: on the built-in graph, with the terrain filter off and maxCost at   *)
(* least every edge cost, the query A to F returns the edges A-C, C-E,     *)
(* E-F in this order and the cost 1595.                                    *)
(***************************************************************************)
C2_BuiltinRouteAF ==
  (/\ Done /\ nodes = NodeIds /\ edges = BuiltinEdges
   /\ source = "A" /\ destination = "F"
   /\ ~terrainFilterEnabled
   /\ \A i \in 1..Len(edges) : RateCost(edges[i]) <= maxCost)
  => route = [path |-> <<BuiltinEdges[2], BuiltinEdges[5], BuiltinEdges[7]>>,
              cost |-> 1595]

C2_Witness ==
  /\ Done /\ edges = BuiltinEdges
  /\ source = "A" /\ destination = "F"
  /\ ~terrainFilterEnabled /\ maxCost = 750
  /\ Len(route.path) = 3

(***************************************************************************)
(* C3: when a path is returned (the destination is reached), the returned  *)
(* cost is the sum of distance * (materialCost + laborCost) over the edges *)
(* of the returned path.                                                   *)
(***************************************************************************)
C3_CostIsPathSum ==
  (Done /\ (route.path # <<>> \/ Reachable)) => route.cost = PathSum(route.path, 1)

C3_Witness ==
  /\ Done
  /\ Len(route.path) >= 2
  /\ \A i \in 1..Len(route.path) : RateCost(route.path[i]) > 0

(***************************************************************************)
(* C4: every edge of the returned path passes both clauses of the filter.  *)
(***************************************************************************)
C4_PathEdgesAllowed ==
  Done => \A i \in 1..Len(route.path) : Allowed(route.path[i])

\* a route is returned although both clauses reject some edge of the graph
C4_Witness ==
  /\ Done /\ route.path # <<>>
  /\ terrainFilterEnabled
  /\ \E e \in Range(edges) : e.terrain > maxTerrain
  /\ \E e \in Range(edges) : RateCost(e) > maxCost

(***************************************************************************)
(* C5: a returned non-empty path is a simple path from source to           *)
(* destination: followed from the source, each edge leaves the node the    *)
(* one before it reached, the last one reaches the destination and no node *)
(* is met twice.                                                           *)
(***************************************************************************)
C5_PathIsSimple ==
  (Done /\ route.path # <<>>) => IsSimplePath(route.path, source, destination)

\* a route of two edges, the first of them traversed from its end to its start
C5_Witness ==
  /\ Done /\ Len(route.path) = 2
  /\ route.path[1].end = source

(***************************************************************************)
(* C6: when source and destination are two different nodes and no walk     *)
(* over allowed edges joins them, the result is the empty path with the    *)
(* cost Infinity (which is not the cost 0 of source = destination).        *)
(***************************************************************************)
C6_UnreachableIsInfinity ==
  (Done /\ Selected /\ source # destination /\ ~Reachable) =>
     (route.path = <<>> /\ route.cost = Infinity /\ route.cost # 0)

\* the destination has an edge, and the filter rejects every edge
C6_Witness ==
  /\ Done /\ Selected /\ source # destination /\ ~Reachable
  /\ \E e \in Range(edges) : Joins(e, source, destination)
  /\ \A e \in Range(edges) : RateCost(e) > maxCost

(***************************************************************************)
(* C7: when source or destination is no id of nodes, the call does not     *)
(* throw and returns the empty path with the cost Infinity.                *)
(***************************************************************************)
C7_UnsetIsNoPath ==
  ~Selected =>
     /\ pc # "threw"
     /\ Done => (route.path = <<>> /\ route.cost = Infinity)

(***************************************************************************)
(* C8: when source = destination is a node, the result is the empty path   *)
(* with cost 0, whatever the graph (zero-cost edges, self-loops) and the   *)
(* filter.                                                                 *)
(***************************************************************************)
C8_SameNodeIsZero ==
  (Done /\ Selected /\ source = destination) =>
     (route.path = <<>> /\ route.cost = 0)

\* an allowed zero-cost self-loop at the selected node
C8_Witness ==
  /\ Done /\ Selected /\ source = destination
  /\ \E e \in Range(edges) :
       e.start = source /\ e.end = source /\ RateCost(e) = 0 /\ Allowed(e)

(***************************************************************************)
(* C9: the cost returned under a filter is never below the cost returned   *)
(* for the same graph, source and destination under a filter that is no    *)
(* tighter (Infinity counting as above every finite cost); a query that is *)
(* unreachable under the looser filter is unreachable under the tighter.   *)
(***************************************************************************)
C9_TighterFilterNeverCheaper ==
  Done => \A f \in LooserFilters :
            LET loose == Under(f).cost
            IN  /\ ~Lt(route.cost, loose)
                /\ loose = Infinity => route.cost = Infinity

\* tightening raises a finite cost, or makes a reachable query unreachable
C9_Witness ==
  /\ Done /\ source # destination
  /\ IsFinite(route.cost)
  /\ \E f \in LooserFilters :
       /\ f[1] /\ f[3] = maxCost
       /\ LET loose == Under(f).cost IN IsFinite(loose) /\ loose < route.cost

(***************************************************************************)
(* C10: an edge list with an edge whose start or end is no id of nodes     *)
(* makes the call throw in the adjacency construction, whatever the        *)
(* filter: the search is never entered and no result is returned.          *)
(***************************************************************************)
C10_MalformedEdgeThrows ==
  (\E e \in Range(edges) : Dangling(e)) => pc \in {"build", "threw"}

====
